---- MODULE Spec2Model ----
(***************************************************************************)
(* Execution backends of MDAnalysis.analysis.backends: BackendBase and its *)
(* validation, BackendSerial, BackendMultiprocessing and BackendDask.      *)
(*                                                                         *)
(* One driver thread constructs a backend (lines 47-49), then calls apply  *)
(* any number of times; apply blocks the driver, so at most one call is in *)
(* progress.  The worker processes of multiprocessing.Pool and of the dask *)
(* process scheduler run concurrently with each other inside one call.     *)
(***************************************************************************)
EXTENDS Integers, Sequences, FiniteSets, TLC

\* ------------------------------------------------------------------ bounds
\* longest computations list explored
MaxItems == 5
\* largest integer n_workers explored, and largest pool the engine may build
MaxWorkers == 2

\* longest computations list explored with the task-graph backend
MaxTasks == 3

\* most rules a custom backend writes in one of its two mappings
MaxRules == 3

\* ------------------------------------------------------------ value domain
\* computation items handed to the work function
Items == {1, 2}

\* Python's None in a result slot (MapResult._value = [None] * length)
None == 0

Strategies == {"serial", "multiprocessing", "dask"}

\* Python values passed as n_workers, tagged with their Python type.
\* bool is a subclass of int: True behaves as 1, False as 0.
\* float val k stands for k + 0.5, str val k for the string of k.
NWorkersValues ==
    [type : {"int"}, val : (-1)..MaxWorkers]
      \cup [type : {"bool"}, val : {0, 1}]
      \cup [type : {"float"}, val : {1}]
      \cup [type : {"str"}, val : {2}]
      \cup [type : {"NoneType"}, val : {0}]

NoValue == [type |-> "NoneType", val |-> 0]

\* isinstance(v, int)
IsInstanceInt(v) == v.type \in {"int", "bool"}

\* messages: the literal text and the value interpolated into it
NWorkersMsg(n) ==
    [text |-> "n_workers should be positive integer, got self.n_workers=",
     got |-> n]

DaskMsg ==
    [text |-> "module 'dask' should be installed:https://docs.dask.org/en/stable/install.html",
     got |-> NoValue]

SerialWarnMsg ==
    [text |-> "n_workers is ignored when executing with backend='serial'",
     got |-> NoValue]

NoMsg == [text |-> "", got |-> NoValue]

\* ------------------------------------------------- dict keyed by conditions
\* A Python dict is a sequence of <<key, value>> pairs in insertion order
\* with distinct keys.
EmptyDict == << >>

DictHas(d, k) == \E j \in 1..Len(d) : d[j][1] = k

\* d[k] = v : an existing key keeps its position and takes the new value
DictSet(d, k, v) ==
    IF DictHas(d, k)
      THEN [j \in 1..Len(d) |-> IF d[j][1] = k THEN <<k, v>> ELSE d[j]]
      ELSE Append(d, <<k, v>>)

RECURSIVE DictUnionKeepFirst(_, _)
DictUnionKeepFirst(a, b) ==
    IF b = << >> THEN a
    ELSE DictUnionKeepFirst(IF DictHas(a, b[1][1]) THEN a
                            ELSE Append(a, b[1]), Tail(b))

\* a | b : the entries of a, then those of b, b winning on equal keys
RECURSIVE DictUnion(_, _)
DictUnion(a, b) ==
    IF b = << >> THEN a
    ELSE DictUnion(DictSet(a, b[1][1], b[1][2]), Tail(b))

\* ------------------------------------------------------------- validation
BaseGetChecksLoose(n) ==
    DictSet(EmptyDict, IsInstanceInt(n) /\ n.val >= 0, NWorkersMsg(n))

BaseGetChecksStrict(n) ==
    DictSet(EmptyDict, IsInstanceInt(n) /\ n.val > 1, NWorkersMsg(n))

\* BackendBase._get_checks
BaseGetChecks(n) ==
    DictSet(EmptyDict, IsInstanceInt(n) /\ n.val > 0, NWorkersMsg(n))

\* checks of the task-graph backend that leave out those of the base class
DaskGetChecksOnlyEngine(n, installed) == DictSet(EmptyDict, installed, DaskMsg)

\* BackendDask._get_checks
DaskGetChecks(n, installed) ==
    DictUnion(BaseGetChecks(n), DictSet(EmptyDict, installed, DaskMsg))

\* the _get_checks that the instance's class resolves to
GetChecks(s, n, installed) ==
    IF s = "dask" THEN DaskGetChecks(n, installed) ELSE BaseGetChecks(n)

\* BackendBase._get_warnings, inherited unchanged by the three backends
BaseGetWarnings(n) == EmptyDict

\* BackendSerial._get_warnigns: a set literal of two elements, under a name
\* that _validate never looks up
SerialGetWarnigns(n) == {n.val > 1, SerialWarnMsg}

\* the _get_warnings that the instance's class resolves to
GetWarnings(s, n) == BaseGetWarnings(n)

\* a loop that raises on the first entry whose condition is true
RECURSIVE FirstFailedIfTrue(_)
FirstFailedIfTrue(d) ==
    IF d = << >> THEN NoMsg
    ELSE IF d[1][1] THEN d[1][2]
    ELSE FirstFailedIfTrue(Tail(d))

FirstFailedOnlyHead(d) ==
    IF d # << >> /\ ~d[1][1] THEN d[1][2] ELSE NoMsg

\* first loop of _validate: the message of the first entry whose condition
\* is false, NoMsg when the loop ends without raising
RECURSIVE FirstFailed(_)
FirstFailed(d) ==
    IF d = << >> THEN NoMsg
    ELSE IF ~d[1][1] THEN d[1][2]
    ELSE FirstFailed(Tail(d))

\* second loop of _validate: the messages warned, in order
RECURSIVE Warned(_)
Warned(d) ==
    IF d = << >> THEN << >>
    ELSE IF ~d[1][1] THEN <<d[1][2]>> \o Warned(Tail(d))
    ELSE Warned(Tail(d))

\* ------------------------------------------- rules of a custom backend
\* BackendBase is the base class for custom backends: a subclass overrides
\* _get_checks and _get_warnings with dict literals of its own rules.
\* message of the k-th rule a custom backend writes in a mapping
RuleMsg(kind, k) == [text |-> kind, got |-> [type |-> "int", val |-> k]]

\* the pairs of a dict literal whose k-th condition evaluates to conds[k]
RulePairs(conds, kind) ==
    [k \in 1..Len(conds) |-> <<conds[k], RuleMsg(kind, k)>>]

\* {cond1: msg1, cond2: msg2, ...}: later pairs win on equal keys
DictLiteral(pairs) == DictUnion(EmptyDict, pairs)

\* the outcomes of the conditions of at most n rules
RuleOutcomes(n) == UNION {[1..k -> BOOLEAN] : k \in 0..n}

\* what _get_checks() and _get_warnings() of a custom backend can return
CustomRules ==
    {[checks |-> DictLiteral(RulePairs(c, "fatal rule")),
      warnings |-> DictLiteral(RulePairs(w, "soft rule"))] :
        c \in RuleOutcomes(MaxRules), w \in RuleOutcomes(MaxRules)}

\* the shipped backends take their mappings from their classes
NoRules == [checks |-> EmptyDict, warnings |-> EmptyDict]

\* ------------------------------------------------------ inputs of apply
\* work functions the driver passes: square never raises, checked raises
\* ValueError on item 2 and squares the others, locked squares too but
\* closes over a lock, which no pickler can serialize
Funcs == {"square", "checked", "locked"}

\* an item that holds a lock: func accepts it, no pickler can serialize it
Opaque == 3

\* func can be sent to a worker process
FuncTransfers(f) == f # "locked"

\* the item can be sent to a worker process
ItemTransfers(x) == x # Opaque

Raises(f, x) == f = "checked" /\ x = 2

Ret(f, x) == x * x

\* how many items of s equal x
Count(s, x) == Cardinality({i \in 1..Len(s) : s[i] = x})

\* every computations list the driver passes, of at most n items: at most
\* two items on which checked raises, at most one item that cannot be
\* pickled, and beside that one a single raising item in short lists only
ApplyLists(n) ==
    {s \in UNION {[1..k -> Items \cup {Opaque}] : k \in 0..n} :
        /\ Count(s, Opaque) <= 1
        /\ Count(s, 2) <= 2
        /\ Count(s, Opaque) = 1 =>
              Count(s, 2) <= (IF Len(s) <= MaxTasks THEN 1 ELSE 0)}

\* the lists the driver passes to the serial and the pool strategies, and
\* to the task-graph strategy
LongLists == ApplyLists(MaxItems)
ShortLists == ApplyLists(MaxTasks)

\* the exception raised by the invocation of func on computations[i]
Exc(i) == [type |-> "ValueError", task |-> i]

\* the pickling error of the batch or task that starts at computations[i]
TransferExc(i) == [type |-> "TransferError", task |-> i]

NoExc == [type |-> "none", task |-> 0]

\* worker counts the task-graph engine may settle on for its process pool:
\* apply hands the count over under the keyword n_workers, and what the
\* process scheduler makes of that keyword is the engine's business
EngineWorkers == {1, 2}

\* keywords that let the scheduler hand two tasks to a worker as one unit
DaskComputeKwargsPairs(n) ==
    [scheduler |-> "processes", chunksize |-> 2, n_workers |-> n]

\* keyword arguments of dask.compute
DaskComputeKwargs(n) ==
    [scheduler |-> "processes", chunksize |-> 1, n_workers |-> n]

\* [delayed(func)(task) for task in computations]: one task per item, whose
\* only inputs are func and the item
Delayed(f, items) ==
    [i \in 1..Len(items) |-> [func |-> f, arg |-> items[i], deps |-> {}]]

\* what apply hands to the engine: the task list and the keywords
EngineCall(f, items, n) ==
    [graph |-> Delayed(f, items), kwargs |-> DaskComputeKwargs(n)]

NoEngineCall ==
    [graph |-> << >>,
     kwargs |-> [scheduler |-> "", chunksize |-> 0, n_workers |-> NoValue]]

\* --------------------------------------------------------- serial apply
\* [func(task) for task in computations], when no invocation raises
ListComp(f, items) == [i \in 1..Len(items) |-> Ret(f, items[i])]

\* ------------------------------------------------ multiprocessing.Pool.map
\* chunksize, extra = divmod(len(iterable), len(pool) * 4); rounded up; 0
\* for an empty iterable
ChunkSize(len, nproc) ==
    IF len = 0 THEN 0
    ELSE (len \div (nproc * 4)) + (IF len % (nproc * 4) # 0 THEN 1 ELSE 0)

NumberLeftFloor(len, cs) == IF cs <= 0 THEN 0 ELSE len \div cs

\* number of task batches of the map: MapResult._number_left
NumberLeft(len, cs) ==
    IF cs <= 0 THEN 0
    ELSE (len \div cs) + (IF len % cs # 0 THEN 1 ELSE 0)

\* batch (0-based) that holds item i (1-based)
ChunkOf(i, cs) == (i - 1) \div cs

ChunkFirst(c, cs) == c * cs + 1

ChunkLast(c, cs, len) == IF (c + 1) * cs < len THEN (c + 1) * cs ELSE len

SetSliceOffByOne(v, c, cs, res) ==
    [k \in 1..Len(v) |->
        IF k >= c * cs + 2 /\ k <= c * cs + 1 + Len(res)
          THEN res[k - c * cs - 1]
          ELSE v[k]]

\* self._value[i*self._chunksize:(i+1)*self._chunksize] = result
SetSlice(v, c, cs, res) ==
    [k \in 1..Len(v) |->
        IF k >= c * cs + 1 /\ k <= c * cs + Len(res)
          THEN res[k - c * cs]
          ELSE v[k]]

StoreLastException(ok, old, e) == e

\* MapResult._set: "only store first exception"
StoreException(ok, old, e) == IF ok THEN e ELSE old

\* a map result that is ready only if no batch failed
ReadyOnSuccessOnly(left, ok) == left = 0 /\ ok

\* MapResult is ready "once all jobs are done"
Ready(left, ok) == left = 0

TerminateNone(a) == a

\* Pool.__exit__ -> terminate(): every worker terminated and joined
Terminate(a) == 0

GetIgnoringFailure(ok, v, e) ==
    [kind |-> "returned", value |-> v, exc |-> NoExc]

\* how apply ends: the list is returned, or the stored exception is raised
Outcome(ok, v, e) ==
    IF ok THEN [kind |-> "returned", value |-> v, exc |-> NoExc]
    ELSE [kind |-> "raised", value |-> << >>, exc |-> e]

NoResult == [kind |-> "none", value |-> << >>, exc |-> NoExc]

\* ------------------------------------------------------------------ state
VARIABLES
    dask_installed,  \* environment: is_installed("dask")
    strategy,        \* class of the backend instance
    n_workers,       \* self.n_workers
    state,           \* Unvalidated, Idle, Applying, ConstructionFailed
    error,           \* message of the ValueError raised by _validate
    warned,          \* messages passed to warnings.warn by _validate
    func,            \* func of the current or last apply
    computations,    \* computations of the current or last apply
    pc,              \* position inside apply
    status,          \* per item: pending, submitted, running, done, failed, skipped
    rets,            \* per item: value returned inside the worker
    value,           \* result list being assembled by the caller's side
    success,         \* no failure has been reported to the caller's side
    exc,             \* the exception stored for re-raising
    number_left,     \* task batches whose outcome is still awaited
    alive,           \* worker processes alive
    failed_order,    \* items whose failure was reported, in time order
    result,          \* how the last apply ended
    engine,          \* task list and keywords handed to dask.compute
    prev,            \* how the call before this one ended, see Previous
    rules            \* mappings returned by a custom backend's overrides

env == <<dask_installed>>
inst == <<strategy, n_workers, state, error, warned, rules>>
call == <<func, computations, pc, status, rets, value, success, exc,
          number_left, alive, failed_order, result, engine, prev>>
vars == <<dask_installed, strategy, n_workers, state, error, warned,
          func, computations, pc, status, rets, value, success, exc,
          number_left, alive, failed_order, result, engine, prev, rules>>

NoCall ==
    /\ func = "square"
    /\ computations = << >>
    /\ pc = "none"
    /\ status = << >>
    /\ rets = << >>
    /\ value = << >>
    /\ success = TRUE
    /\ exc = NoExc
    /\ number_left = 0
    /\ alive = 0
    /\ failed_order = << >>
    /\ result = NoResult
    /\ engine = NoEngineCall
    /\ prev = NoResult

\* a fresh instance has no call behind it
ResetCall ==
    /\ func' = "square"
    /\ computations' = << >>
    /\ pc' = "none"
    /\ status' = << >>
    /\ rets' = << >>
    /\ value' = << >>
    /\ success' = TRUE
    /\ exc' = NoExc
    /\ number_left' = 0
    /\ alive' = alive
    /\ failed_order' = << >>
    /\ result' = NoResult
    /\ engine' = NoEngineCall
    /\ prev' = NoResult

\* the driver has called a backend class: line 48 has stored n_workers
Init ==
    /\ dask_installed \in BOOLEAN
    /\ strategy \in Strategies
    /\ n_workers \in NWorkersValues
    /\ state = "Unvalidated"
    /\ error = NoMsg
    /\ warned = << >>
    /\ rules = NoRules
    /\ NoCall

\* the driver has called a custom backend class, whose two overrides return
\* mappings of its own: line 48 has stored n_workers
InitCustom ==
    /\ dask_installed \in BOOLEAN
    /\ strategy = "custom"
    /\ n_workers \in NWorkersValues
    /\ state = "Unvalidated"
    /\ error = NoMsg
    /\ warned = << >>
    /\ rules \in CustomRules
    /\ NoCall

\* BackendBase.__init__, line 48, for a further instance; the previous one
\* is dropped by the driver
New(s, n) ==
    /\ state \in {"Idle", "ConstructionFailed"}
    /\ strategy' = s
    /\ n_workers' = n
    /\ state' = "Unvalidated"
    /\ error' = NoMsg
    /\ warned' = << >>
    /\ ResetCall
    /\ UNCHANGED <<env, rules>>

\* a _validate that runs its warnings loop before its checks loop
ValidateWarnFirst(checks, warns) ==
    /\ state = "Unvalidated"
    /\ warned' = Warned(warns)
    /\ LET msg == FirstFailed(checks)
       IN  IF msg # NoMsg
             THEN /\ state' = "ConstructionFailed"
                  /\ error' = msg
             ELSE /\ state' = "Idle"
                  /\ error' = NoMsg
    /\ UNCHANGED <<env, strategy, n_workers, rules, call>>

\* the body of BackendBase._validate, lines 93-98, on the mappings that
\* self._get_checks() and self._get_warnings() return
ValidateWith(checks, warns) ==
    /\ state = "Unvalidated"
    /\ LET msg == FirstFailed(checks)
       IN  IF msg # NoMsg
             THEN /\ state' = "ConstructionFailed"
                  /\ error' = msg
                  /\ warned' = warned
             ELSE /\ state' = "Idle"
                  /\ error' = NoMsg
                  /\ warned' = Warned(warns)
    /\ UNCHANGED <<env, strategy, n_workers, rules, call>>

\* BackendBase._validate, called at line 49, for a shipped backend
Validate ==
    /\ strategy \in Strategies
    /\ ValidateWith(GetChecks(strategy, n_workers, dask_installed),
                    GetWarnings(strategy, n_workers))

\* BackendBase._validate, called at line 49, for a custom backend
ValidateCustom ==
    /\ strategy = "custom"
    /\ ValidateWith(rules.checks, rules.warnings)

\* ------------------------------------------------------------ apply: entry
\* a result list that is not built anew: the list of the call before is
\* extended
Len0AfterPrevious(items) == value \o [i \in 1..Len(items) |-> None]

Len0(items) == [i \in 1..Len(items) |-> None]

Pending(items) == [i \in 1..Len(items) |-> "pending"]

InFlight == {i \in 1..Len(status) : status[i] \in {"submitted", "running"}}

Running == {i \in 1..Len(status) : status[i] = "running"}

\* marks a call that follows one that raised
AfterRaise == [kind |-> "raised", value |-> << >>, exc |-> NoExc]

\* what a call starting now with f and items has behind it on this instance:
\* the outcome of the call before, kept when that call raised (without its
\* exception) or when it returned for the same f and items
Previous(f, items) ==
    IF result.kind = "raised" THEN AfterRaise
    ELSE IF result.kind = "returned" /\ f = func /\ items = computations
      THEN result
    ELSE NoResult

\* a call that starts with the failure record of the call before
EnterCallStale(f, items) ==
    /\ state = "Idle"
    /\ prev' = Previous(f, items)
    /\ state' = "Applying"
    /\ func' = f
    /\ computations' = items
    /\ status' = Pending(items)
    /\ rets' = Len0(items)
    /\ UNCHANGED <<success, exc>>
    /\ failed_order' = << >>
    /\ result' = NoResult
    /\ UNCHANGED <<env, rules, strategy, n_workers, error, warned>>

EnterCall(f, items) ==
    /\ state = "Idle"
    /\ prev' = Previous(f, items)
    /\ state' = "Applying"
    /\ func' = f
    /\ computations' = items
    /\ status' = Pending(items)
    /\ rets' = Len0(items)
    /\ success' = TRUE
    /\ exc' = NoExc
    /\ failed_order' = << >>
    /\ result' = NoResult
    /\ UNCHANGED <<env, rules, strategy, n_workers, error, warned>>

\* BackendSerial.apply is called: the comprehension starts with an empty list
SerialApply(f, items) ==
    /\ strategy = "serial"
    /\ EnterCall(f, items)
    /\ value' = << >>
    /\ number_left' = Len(items)
    /\ alive' = alive
    /\ engine' = NoEngineCall
    /\ pc' = IF Len(items) = 0 THEN "end" ELSE "loop"

\* a pool created with one worker more than n_workers
MultiprocessingApplyExtraWorker(f, items) ==
    /\ strategy = "multiprocessing"
    /\ EnterCall(f, items)
    /\ value' = Len0(items)
    /\ number_left' =
          NumberLeft(Len(items), ChunkSize(Len(items), n_workers.val))
    /\ alive' = alive + n_workers.val + 1
    /\ engine' = NoEngineCall
    /\ pc' = "map"

\* BackendMultiprocessing.apply is called: Pool(processes=self.n_workers)
\* starts its workers and pool.map queues the task batches
MultiprocessingApply(f, items) ==
    /\ strategy = "multiprocessing"
    /\ EnterCall(f, items)
    /\ value' = Len0(items)
    /\ number_left' =
          NumberLeft(Len(items), ChunkSize(Len(items), n_workers.val))
    /\ alive' = alive + n_workers.val
    /\ engine' = NoEngineCall
    /\ pc' = "map"

\* an apply that stores the size of the engine's pool on the instance
DaskApplyAdopting(f, items, w) ==
    /\ strategy = "dask"
    /\ state = "Idle"
    /\ prev' = Previous(f, items)
    /\ state' = "Applying"
    /\ func' = f
    /\ computations' = items
    /\ status' = Pending(items)
    /\ rets' = Len0(items)
    /\ success' = TRUE
    /\ exc' = NoExc
    /\ failed_order' = << >>
    /\ result' = NoResult
    /\ n_workers' = [type |-> "int", val |-> w]
    /\ value' = Len0(items)
    /\ number_left' = Len(items)
    /\ alive' = alive + w
    /\ engine' = EngineCall(f, items, n_workers)
    /\ pc' = "compute"
    /\ UNCHANGED <<env, rules, strategy, error, warned>>

\* BackendDask.apply is called: one delayed task per item, dask.compute
\* starts the process scheduler
DaskApply(f, items, w) ==
    /\ strategy = "dask"
    /\ EnterCall(f, items)
    /\ value' = Len0(items)
    /\ number_left' = Len(items)
    /\ alive' = alive + w
    /\ engine' = EngineCall(f, items, n_workers)
    /\ pc' = "compute"

\* a loop that walks the list from its end
SerialCallBackwards ==
    /\ pc = "loop"
    /\ Running = {}
    /\ Len(value) < Len(computations)
    /\ status' = [status EXCEPT
                    ![Len(computations) - Len(value)] = "running"]
    /\ UNCHANGED <<env, inst, engine, prev, func, computations, pc, rets, value,
                   success, exc, number_left, alive, failed_order, result>>

\* ------------------------------------------------------- apply: serial loop
\* the comprehension calls func on the next task
SerialCall ==
    /\ pc = "loop"
    /\ Running = {}
    /\ Len(value) < Len(computations)
    /\ status' = [status EXCEPT ![Len(value) + 1] = "running"]
    /\ UNCHANGED <<env, inst, engine, prev, func, computations, pc, rets, value, success,
                   exc, number_left, alive, failed_order, result>>

\* func returns, or raises out of the comprehension
SerialFinish(i) ==
    /\ pc = "loop"
    /\ i \in Running
    /\ IF Raises(func, computations[i])
         THEN /\ status' = [status EXCEPT ![i] = "failed"]
              /\ exc' = StoreException(success, exc, Exc(i))
              /\ success' = FALSE
              /\ failed_order' = Append(failed_order, i)
              /\ pc' = "end"
              /\ UNCHANGED <<rets, value>>
         ELSE /\ status' = [status EXCEPT ![i] = "done"]
              /\ rets' = [rets EXCEPT ![i] = Ret(func, computations[i])]
              /\ value' = Append(value, Ret(func, computations[i]))
              /\ pc' = IF i = Len(computations) THEN "end" ELSE "loop"
              /\ UNCHANGED <<success, exc, failed_order>>
    /\ number_left' = number_left - 1
    /\ UNCHANGED <<env, inst, engine, prev, func, computations, alive, result>>

\* --------------------------------------------------- apply: process pool
PoolChunkSize == ChunkSize(Len(computations), n_workers.val)

\* batches no worker has taken from the task queue yet
Untaken ==
    {c \in 0..(NumberLeft(Len(computations), PoolChunkSize) - 1) :
        status[ChunkFirst(c, PoolChunkSize)] = "pending"}

\* the batch (func, items of chunk c) can be written to the workers' pipe
ChunkTransfers(c) ==
    /\ FuncTransfers(func)
    /\ \A i \in ChunkFirst(c, PoolChunkSize)
                ..ChunkLast(c, PoolChunkSize, Len(computations)) :
          ItemTransfers(computations[i])

\* an idle worker takes the next batch of the queue and calls func on its
\* first item; a batch that cannot be pickled never reaches the queue
PoolTake ==
    /\ pc = "map"
    /\ Cardinality(Running) < alive
    /\ Untaken # {}
    /\ LET c == CHOOSE x \in Untaken : \A y \in Untaken : x <= y
       IN  /\ ChunkTransfers(c)
           /\ status' = [status EXCEPT
                           ![ChunkFirst(c, PoolChunkSize)] = "running"]
    /\ UNCHANGED <<env, inst, engine, prev, func, computations, pc, rets, value, success,
                   exc, number_left, alive, failed_order, result>>

\* a task handler that drops a batch it cannot pickle without reporting it
PoolPutSkip ==
    /\ pc = "map"
    /\ {c \in Untaken : ~ChunkTransfers(c)} # {}
    /\ LET bad == {c \in Untaken : ~ChunkTransfers(c)}
           c == CHOOSE x \in bad : \A y \in bad : x <= y
           first == ChunkFirst(c, PoolChunkSize)
           last == ChunkLast(c, PoolChunkSize, Len(computations))
       IN  status' = [k \in 1..Len(status) |->
                        IF k >= first /\ k <= last THEN "skipped"
                        ELSE status[k]]
    /\ number_left' = number_left - 1
    /\ UNCHANGED <<env, inst, engine, prev, func, computations, pc, rets, value,
                   success, exc, failed_order, alive, result>>

\* the pool's task handler fails to pickle a batch while writing the batches
\* to the pipe in order: it reports the failure as the batch's outcome
\* (recorded at the batch's first item) and no item of the batch is run
PoolPutFail ==
    /\ pc = "map"
    /\ {c \in Untaken : ~ChunkTransfers(c)} # {}
    /\ LET bad == {c \in Untaken : ~ChunkTransfers(c)}
           c == CHOOSE x \in bad : \A y \in bad : x <= y
           first == ChunkFirst(c, PoolChunkSize)
           last == ChunkLast(c, PoolChunkSize, Len(computations))
       IN  /\ status' = [k \in 1..Len(status) |->
                           IF k = first THEN "failed"
                           ELSE IF k > first /\ k <= last THEN "skipped"
                           ELSE status[k]]
           /\ exc' = StoreException(success, exc, TransferExc(first))
           /\ failed_order' = Append(failed_order, first)
    /\ success' = FALSE
    /\ number_left' = number_left - 1
    /\ UNCHANGED <<env, inst, engine, prev, func, computations, pc, rets, value,
                   alive, result>>

\* func ends inside a worker running mapstar on a batch: the worker goes on
\* to the next item of the batch, or reports the batch (MapResult._set)
PoolFinish(i) ==
    /\ pc = "map"
    /\ i \in Running
    /\ LET cs == PoolChunkSize
           c == ChunkOf(i, cs)
           first == ChunkFirst(c, cs)
           last == ChunkLast(c, cs, Len(computations))
           r == Ret(func, computations[i])
       IN  IF Raises(func, computations[i])
             THEN /\ status' = [k \in 1..Len(status) |->
                                  IF k = i THEN "failed"
                                  ELSE IF k > i /\ k <= last THEN "skipped"
                                  ELSE status[k]]
                  /\ exc' = StoreException(success, exc, Exc(i))
                  /\ success' = FALSE
                  /\ failed_order' = Append(failed_order, i)
                  /\ number_left' = number_left - 1
                  /\ UNCHANGED <<rets, value>>
             ELSE IF i < last
               THEN /\ status' = [status EXCEPT ![i] = "done",
                                                ![i + 1] = "running"]
                    /\ rets' = [rets EXCEPT ![i] = r]
                    /\ UNCHANGED <<value, success, exc, failed_order,
                                   number_left>>
               ELSE /\ status' = [status EXCEPT ![i] = "done"]
                    /\ rets' = [rets EXCEPT ![i] = r]
                    /\ value' =
                         IF success
                           THEN SetSlice(value, c, cs,
                                  [k \in 1..(last - first + 1) |->
                                      IF first + k - 1 = i THEN r
                                      ELSE rets[first + k - 1]])
                           ELSE value
                    /\ number_left' = number_left - 1
                    /\ UNCHANGED <<success, exc, failed_order>>
    /\ UNCHANGED <<env, inst, engine, prev, func, computations, pc, alive, result>>

\* pool.map stops blocking: MapResult.get() hands back the list or raises
PoolMapGet ==
    /\ pc = "map"
    /\ Ready(number_left, success)
    /\ pc' = "exit"
    /\ UNCHANGED <<env, inst, engine, prev, func, computations, status, rets, value,
                   success, exc, number_left, alive, failed_order, result>>

\* the with block is left, normally or by the exception: Pool.__exit__
PoolExit ==
    /\ pc = "exit"
    /\ alive' = Terminate(alive)
    /\ pc' = "end"
    /\ UNCHANGED <<env, inst, engine, prev, func, computations, status, rets, value,
                   success, exc, number_left, failed_order, result>>

\* ---------------------------------------------------- apply: task graph
\* the task of item i can be pickled for a worker process
TaskTransfers(i) ==
    /\ FuncTransfers(engine.graph[i].func)
    /\ ItemTransfers(engine.graph[i].arg)

\* the scheduler pickles ready tasks and submits them as one unit of at most
\* chunksize tasks while a worker is free; a task that cannot be pickled
\* makes the scheduler raise, and nothing of the unit is submitted; the
\* scheduler submits nothing more once a failure has reached it
DaskSubmit(S) ==
    /\ pc = "compute"
    /\ success
    /\ S # {}
    /\ S \subseteq {i \in 1..Len(status) : status[i] = "pending"}
    /\ Cardinality(S) <= engine.kwargs.chunksize
    /\ Cardinality(InFlight) < alive
    /\ IF \A i \in S : TaskTransfers(i)
         THEN /\ status' = [k \in 1..Len(status) |->
                              IF k \in S THEN "submitted" ELSE status[k]]
              /\ UNCHANGED <<success, exc, number_left, failed_order>>
         ELSE LET bad == {i \in S : ~TaskTransfers(i)}
                  i == CHOOSE x \in bad : \A y \in bad : x <= y
              IN  /\ status' = [status EXCEPT ![i] = "failed"]
                  /\ exc' = StoreException(success, exc, TransferExc(i))
                  /\ success' = FALSE
                  /\ failed_order' = Append(failed_order, i)
                  /\ number_left' = number_left - 1
    /\ UNCHANGED <<env, inst, engine, prev, func, computations, pc, rets, value,
                   alive, result>>

\* a worker process starts func on a submitted task
DaskStart(i) ==
    /\ pc = "compute"
    /\ i \in 1..Len(status)
    /\ status[i] = "submitted"
    /\ status' = [status EXCEPT ![i] = "running"]
    /\ UNCHANGED <<env, inst, engine, prev, func, computations, pc, rets, value, success,
                   exc, number_left, alive, failed_order, result>>

\* func ends inside a worker and the outcome reaches the scheduler, which
\* keeps the result under the task's key, or starts raising
DaskFinish(i) ==
    /\ pc = "compute"
    /\ i \in Running
    /\ IF Raises(func, computations[i])
         THEN /\ status' = [status EXCEPT ![i] = "failed"]
              /\ exc' = StoreException(success, exc, Exc(i))
              /\ success' = FALSE
              /\ failed_order' = Append(failed_order, i)
              /\ UNCHANGED <<rets, value>>
         ELSE /\ status' = [status EXCEPT ![i] = "done"]
              /\ rets' = [rets EXCEPT ![i] = Ret(func, computations[i])]
              /\ value' = IF success
                            THEN SetSlice(value, i - 1, 1,
                                          <<Ret(func, computations[i])>>)
                            ELSE value
              /\ UNCHANGED <<success, exc, failed_order>>
    /\ number_left' = number_left - 1
    /\ UNCHANGED <<env, inst, engine, prev, func, computations, pc, alive, result>>

\* dask.compute ends: every task is done, or a failure is being raised; the
\* scheduler's pool is shut down, waiting for the tasks in flight
DaskShutdown ==
    /\ pc = "compute"
    /\ number_left = 0 \/ ~success
    /\ InFlight = {}
    /\ alive' = Terminate(alive)
    /\ pc' = "end"
    /\ UNCHANGED <<env, inst, engine, prev, func, computations, status, rets, value,
                   success, exc, number_left, failed_order, result>>

\* --------------------------------------------------------- apply: the end
\* apply returns the list (lines 137, 152, 173)
ApplyReturn ==
    /\ pc = "end"
    /\ success
    /\ result' = Outcome(success, value, exc)
    /\ state' = "Idle"
    /\ pc' = "none"
    /\ prev' = NoResult
    /\ UNCHANGED <<env, rules, strategy, n_workers, error, warned, engine, func,
                   computations, status, rets, value, success, exc,
                   number_left, alive, failed_order>>

\* the exception leaves apply
ApplyRaise ==
    /\ pc = "end"
    /\ ~success
    /\ result' = Outcome(success, value, exc)
    /\ state' = "Idle"
    /\ pc' = "none"
    /\ prev' = NoResult
    /\ UNCHANGED <<env, rules, strategy, n_workers, error, warned, engine, func,
                   computations, status, rets, value, success, exc,
                   number_left, alive, failed_order>>

Next ==
    \/ \E s \in Strategies, n \in NWorkersValues : New(s, n)
    \/ Validate
    \/ \E f \in Funcs, items \in LongLists : SerialApply(f, items)
    \/ \E f \in Funcs, items \in LongLists : MultiprocessingApply(f, items)
    \/ \E f \in Funcs, items \in ShortLists, w \in EngineWorkers :
          DaskApply(f, items, w)
    \/ SerialCall
    \/ \E i \in 1..MaxItems : SerialFinish(i)
    \/ PoolTake
    \/ PoolPutFail
    \/ \E i \in 1..MaxItems : PoolFinish(i)
    \/ PoolMapGet
    \/ PoolExit
    \/ \E S \in SUBSET (1..MaxTasks) : DaskSubmit(S)
    \/ \E i \in 1..MaxItems : DaskStart(i)
    \/ \E i \in 1..MaxItems : DaskFinish(i)
    \/ DaskShutdown
    \/ ApplyReturn
    \/ ApplyRaise

Spec == Init /\ [][Next]_vars

\* the steps taken inside an apply call: by the interpreter running the
\* call, by the pool's threads and by the worker processes
CallStep ==
    \/ SerialCall
    \/ \E i \in 1..MaxItems : SerialFinish(i)
    \/ PoolTake
    \/ PoolPutFail
    \/ \E i \in 1..MaxItems : PoolFinish(i)
    \/ PoolMapGet
    \/ PoolExit
    \/ \E S \in SUBSET (1..MaxTasks) : DaskSubmit(S)
    \/ \E i \in 1..MaxItems : DaskStart(i)
    \/ \E i \in 1..MaxItems : DaskFinish(i)
    \/ DaskShutdown
    \/ ApplyReturn
    \/ ApplyRaise

\* func terminates and the processes and threads of a call are scheduled:
\* a call that can take a step eventually takes one
FairSpec == Spec /\ WF_vars(CallStep)

\* the construction of a custom backend: __init__ runs _validate once
NextCustom == ValidateCustom

CustomSpec == InitCustom /\ [][NextCustom]_vars

\* ================================================================ claims
\* the last apply has ended and its outcome is with the driver
Completed == state = "Idle" /\ pc = "none" /\ result.kind # "none"

\* item i is lost on the way to a worker process: func or the item (for the
\* pool, an item of its batch) cannot be pickled
TransferFails(i) ==
    /\ strategy # "serial"
    /\ \/ ~FuncTransfers(func)
       \/ IF strategy = "multiprocessing"
            THEN ~ChunkTransfers(ChunkOf(i, PoolChunkSize))
            ELSE ~ItemTransfers(computations[i])

\* the exception item i fails with
FailureOf(i) == IF TransferFails(i) THEN TransferExc(i) ELSE Exc(i)

\* no invocation of func on an item of computations raises, and func and
\* every item reach the workers
NonFailing ==
    \A i \in 1..Len(computations) :
        ~Raises(func, computations[i]) /\ ~TransferFails(i)

\* n is a positive integer
PositiveInteger(n) == n.type \in {"int", "bool"} /\ n.val > 0

\* every fatal rule of the instance's class holds
FatalRulesHold ==
    /\ PositiveInteger(n_workers)
    /\ strategy = "dask" => dask_installed

\* C1: with a function that fails on no item, apply of every strategy
\* returns a list as long as computations whose i-th element is
\* func(computations[i]), whatever the order in which the workers took and
\* finished the items; the empty list gives the empty list.
C1_OrderPreserved ==
    (Completed /\ NonFailing) =>
        /\ result.kind = "returned"
        /\ Len(result.value) = Len(computations)
        /\ \A i \in 1..Len(computations) :
              result.value[i] = Ret(func, computations[i])

C1_Witness ==
    /\ Completed
    /\ strategy = "multiprocessing"
    /\ n_workers.val = 2
    /\ result.kind = "returned"
    /\ Len(computations) >= 3
    /\ computations[1] = 2
    /\ computations[2] = 1

\* C2: whatever list a strategy returns is the list the serial
\* comprehension [func(task) for task in computations] evaluates to, so the
\* three strategies return identical lists, and each of them does return
\* when the comprehension does.
C2_SameAsSerial ==
    Completed =>
        /\ result.kind = "returned" => result.value = ListComp(func, computations)
        /\ NonFailing => result.kind = "returned"

C2_Witness ==
    /\ Completed
    /\ strategy = "dask"
    /\ result.kind = "returned"
    /\ result.value = <<4, 1, 4>>

\* C3: construction with n_workers 0, -1 or a value that is no int fails
\* with the ValueError of _validate, for every backend class; a
\* BackendMultiprocessing with n_workers = 1 is constructed with no error.
C3_WorkerCountChecked ==
    state # "Unvalidated" =>
        /\ (n_workers.type \notin {"int", "bool"}
              \/ n_workers = [type |-> "int", val |-> 0]
              \/ n_workers = [type |-> "int", val |-> -1])
            => (state = "ConstructionFailed"
                  /\ error \in {NWorkersMsg(n_workers), DaskMsg})
        /\ (strategy = "multiprocessing"
              /\ n_workers = [type |-> "int", val |-> 1])
            => (state # "ConstructionFailed" /\ error = NoMsg)

C3_Witness ==
    /\ state = "ConstructionFailed"
    /\ strategy = "serial"
    /\ n_workers.type = "float"
    /\ error = NWorkersMsg(n_workers)

\* C4: a BackendDask built where dask is not installed fails in its
\* constructor, with the message that names the module and the place to
\* get it, and no apply has been entered on it.
C4_MissingEngineFailsEarly ==
    (strategy = "dask" /\ ~dask_installed /\ state # "Unvalidated") =>
        /\ state = "ConstructionFailed"
        /\ error = DaskMsg
        /\ pc = "none"
        /\ result = NoResult

C4_Witness ==
    /\ strategy = "dask"
    /\ ~dask_installed
    /\ state = "ConstructionFailed"
    /\ n_workers = [type |-> "int", val |-> 0]
    /\ error = DaskMsg

\* C5: an instance one of whose fatal rules is false ends construction in
\* ConstructionFailed; apply is never in progress and never has been on an
\* instance whose fatal rules do not all hold; and the only step out of
\* ConstructionFailed is the construction of another instance.
C5_FailedNeverUsable ==
    /\ [](/\ (state # "Unvalidated" /\ ~FatalRulesHold)
               => state = "ConstructionFailed"
          /\ (state \in {"Idle", "Applying"} \/ pc # "none"
                \/ result # NoResult)
               => FatalRulesHold
          /\ state = "ConstructionFailed" => (pc = "none" /\ error # NoMsg))
    /\ [][state = "ConstructionFailed"
            => state' \in {"ConstructionFailed", "Unvalidated"}]_vars

C5_Witness ==
    /\ state = "ConstructionFailed"
    /\ strategy = "dask"
    /\ PositiveInteger(n_workers)
    /\ ~dask_installed

\* C6: a BackendSerial constructed with n_workers > 1 is constructed and
\* has warned that n_workers is ignored.
C6_SerialWarns ==
    (strategy = "serial" /\ state # "Unvalidated"
       /\ PositiveInteger(n_workers) /\ n_workers.val > 1) =>
        /\ state # "ConstructionFailed"
        /\ \E j \in 1..Len(warned) : warned[j] = SerialWarnMsg

\* C7 as stated: a BackendMultiprocessing or BackendDask (dask installed)
\* constructed with n_workers = 1 is constructed and has warned.
C7_ParallelWarnsOnOne ==
    (strategy \in {"multiprocessing", "dask"} /\ state # "Unvalidated"
       /\ FatalRulesHold /\ n_workers.val = 1) =>
        /\ state # "ConstructionFailed"
        /\ warned # << >>

\* C7 as amended: a BackendMultiprocessing or BackendDask (dask installed)
\* constructed with n_workers = 1 is constructed, and nothing is warned:
\* the two classes have no soft rule.
C7_ParallelOneSilent ==
    (strategy \in {"multiprocessing", "dask"} /\ state # "Unvalidated"
       /\ FatalRulesHold /\ n_workers.val = 1) =>
        /\ state # "ConstructionFailed"
        /\ error = NoMsg
        /\ warned = << >>

C7_Witness ==
    /\ strategy = "multiprocessing"
    /\ n_workers = [type |-> "int", val |-> 1]
    /\ state = "Idle"
    /\ warned = << >>

\* C8: when func raises on at least one item, apply of every strategy ends
\* by raising the exception of one of the failing invocations; it hands
\* back no list, shorter or with a placeholder.
C8_FailurePropagates ==
    (Completed /\ ~NonFailing) =>
        /\ result.kind = "raised"
        /\ result.value = << >>
        /\ \E i \in 1..Len(computations) :
              /\ Raises(func, computations[i]) \/ TransferFails(i)
              /\ result.exc = FailureOf(i)

C8_Witness ==
    /\ Completed
    /\ strategy = "multiprocessing"
    /\ func = "checked"
    /\ computations = <<1, 1, 2, 1, 1>>
    /\ result.kind = "raised"
    /\ result.exc = Exc(3)

\* func is started on an item in this step
StartsSome ==
    \E i \in 1..Len(status) :
        /\ i \in 1..Len(status')
        /\ status[i] # "running"
        /\ status'[i] = "running"

\* the exception raised by apply is that of the first failure reported
FirstFailurePropagated ==
    (Completed /\ result.kind = "raised") =>
        /\ failed_order # << >>
        /\ result.exc = FailureOf(failed_order[1])

\* within a call an item is started at most once: it never goes back
NoRetry ==
    state = "Applying" =>
        \A i \in 1..Len(status) :
            /\ status[i] = "running"
                 => status'[i] \in {"running", "done", "failed"}
            /\ status[i] \in {"done", "failed", "skipped"}
                 => status'[i] = status[i]

\* C9 as stated: in every strategy the first exception encountered is the
\* one apply raises, and once it is encountered func is started on no
\* further item and no item is retried.
C9_FailFast ==
    /\ []FirstFailurePropagated
    /\ [][NoRetry]_vars
    /\ [][(state = "Applying" /\ failed_order # << >>) => ~StartsSome]_vars

\* C9 as amended: in every strategy the first exception reported is the one
\* apply raises and no item is retried; the serial strategy starts func on
\* no item after the exception; the process pool does not abort, it raises
\* only when every batch has been reported, its workers taking the batches
\* that remain.
C9_FirstFailureNoRetry ==
    /\ []FirstFailurePropagated
    /\ [][NoRetry]_vars
    /\ [][(state = "Applying" /\ strategy = "serial" /\ failed_order # << >>)
            => ~StartsSome]_vars
    /\ []((strategy = "multiprocessing" /\ pc \in {"exit", "end"}) =>
            \A i \in 1..Len(status) :
                /\ status[i] \in {"done", "failed", "skipped"}
                /\ status[i] = "skipped" =>
                      \E k \in 1..(i - 1) :
                          /\ status[k] = "failed"
                          /\ ChunkOf(k, PoolChunkSize) = ChunkOf(i, PoolChunkSize))

C9_Witness ==
    /\ Completed
    /\ strategy = "multiprocessing"
    /\ result.kind = "raised"
    /\ Len(failed_order) >= 2
    /\ failed_order[1] > failed_order[2]
    /\ result.exc = Exc(failed_order[1])
    /\ \E i \in 1..Len(status) : i > failed_order[1] /\ status[i] = "done"

\* C10: worker processes exist only inside an apply call: the pool is made
\* by the call, holds n_workers workers while pool.map runs, and has none
\* left when apply is about to return or raise, and at any time the backend
\* is not applying, over any sequence of calls and instances.
C10_PoolScoped ==
    /\ (state # "Applying" \/ pc = "end") => alive = 0
    /\ (strategy = "multiprocessing" /\ pc \in {"map", "exit"})
          => alive = n_workers.val

C10_Witness ==
    /\ Completed
    /\ strategy = "multiprocessing"
    /\ n_workers.val = 2
    /\ result.kind = "raised"
    /\ alive = 0

\* C11: calling apply twice in succession on one instance with the same func
\* and the same items gives the same result list both times, for every
\* strategy: a call that followed a call which returned for the same func and
\* items ends by returning exactly what that call returned.
C11_Repeatable ==
    [][(pc = "end" /\ prev.kind = "returned") => result' = prev]_vars

C11_Witness ==
    /\ pc = "end"
    /\ strategy = "multiprocessing"
    /\ prev.kind = "returned"
    /\ prev.value = <<4, 1, 1, 1, 4>>
    /\ value = prev.value

\* C18: an apply that raised leaves the instance ready for the next call:
\* the raising call ends in Idle, and a call that follows a call which raised
\* and whose own func fails on no item returns func applied to each item in
\* order, as it does on a fresh instance, for every strategy.
C18_IdleAfterRaise ==
    [][/\ (pc = "end" /\ ~success) =>
            (state' = "Idle" /\ result'.kind = "raised")
       /\ (pc = "end" /\ prev.kind = "raised" /\ NonFailing) =>
            /\ state' = "Idle"
            /\ result' = [kind |-> "returned",
                          value |-> ListComp(func, computations),
                          exc |-> NoExc]]_vars

C18_Witness ==
    /\ pc = "end"
    /\ strategy = "dask"
    /\ prev.kind = "raised"
    /\ func = "square"
    /\ value = <<1, 4, 1>>
    /\ success

\* C12: an apply call of any strategy leaves the instance's n_workers, the
\* caller's computations list (length, order, elements) and func as they were:
\* entering the call keeps n_workers and the strategy, and from the entry to
\* the return or the raise no step changes n_workers, computations or func.
C12_InputsUntouched ==
    [][(state = "Applying" \/ state' = "Applying") =>
          /\ n_workers' = n_workers
          /\ strategy' = strategy
          /\ state = "Applying" =>
                (computations' = computations /\ func' = func)]_vars

C12_Witness ==
    /\ Completed
    /\ strategy = "dask"
    /\ n_workers = [type |-> "int", val |-> 2]
    /\ Len(engine.graph) = 3
    /\ computations = <<1, 2, 1>>
    /\ func = "checked"
    /\ result.kind = "raised"

\* C13 as stated: in the process-pool and the task-graph strategy, if func or
\* any item cannot be sent to a worker process, apply fails with a transfer
\* error and returns no result list.
C13_TransferErrorRaised ==
    (/\ Completed
     /\ strategy # "serial"
     /\ \/ ~FuncTransfers(func)
        \/ \E i \in 1..Len(computations) : ~ItemTransfers(computations[i]))
    => /\ result.kind = "raised"
       /\ result.value = << >>
       /\ result.exc.type = "TransferError"

\* C13 amended: in the process-pool and the task-graph strategy, if the list
\* is not empty and func or an item cannot be sent to a worker process, apply
\* raises and returns no result list, and no result is ever recorded for an
\* item that cannot be sent. The exception is the transfer error, unless an
\* exception func raised on another item was reported first, which can
\* happen only if func itself can be sent.
C13_TransferFailureRaises ==
    (/\ Completed
     /\ strategy # "serial"
     /\ \E i \in 1..Len(computations) :
           ~FuncTransfers(func) \/ ~ItemTransfers(computations[i]))
    => /\ result.kind = "raised"
       /\ result.value = << >>
       /\ \/ result.exc.type = "TransferError"
          \/ /\ FuncTransfers(func)
             /\ \E i \in 1..Len(computations) :
                   /\ Raises(func, computations[i])
                   /\ result.exc = Exc(i)
       /\ \A i \in 1..Len(computations) :
             ~ItemTransfers(computations[i]) => status[i] # "done"

C13_Witness ==
    /\ Completed
    /\ strategy = "multiprocessing"
    /\ n_workers.val = 1
    /\ func = "square"
    /\ computations = <<1, 1, 1, Opaque, 1>>
    /\ status = <<"done", "done", "failed", "skipped", "done">>
    /\ result.kind = "raised"
    /\ result.exc = TransferExc(3)

\* C14: with a func that terminates and workers that are scheduled fairly,
\* every apply call eventually returns or raises, and a call returns only
\* after a result was produced for every item.
C14_Terminates ==
    /\ (state = "Applying") ~>
          (state = "Idle" /\ result.kind \in {"returned", "raised"})
    /\ [](Completed /\ result.kind = "returned" =>
            /\ Len(result.value) = Len(computations)
            /\ \A i \in 1..Len(computations) :
                  status[i] = "done" /\ rets[i] # None)

C14_Witness ==
    /\ Completed
    /\ strategy = "multiprocessing"
    /\ n_workers.val = 2
    /\ result.kind = "raised"
    /\ number_left = 0
    /\ Len(failed_order) = 2
    /\ Len(computations) = 5

\* C15: during an apply call of the process-pool strategy the pool holds
\* exactly n_workers worker processes from its creation to its teardown, so
\* at no time are more than n_workers invocations of func running; after the
\* teardown the pool holds none.
C15_PoolSize ==
    (state = "Applying" /\ strategy = "multiprocessing") =>
        /\ pc \in {"map", "exit"} =>
              /\ alive = n_workers.val
              /\ Cardinality(Running) <= n_workers.val
        /\ pc = "end" => (alive = 0 /\ Running = {})

C15_Witness ==
    /\ state = "Applying"
    /\ strategy = "multiprocessing"
    /\ pc = "map"
    /\ n_workers.val = 2
    /\ Cardinality(Running) = 2
    /\ Untaken # {}

\* C16: an apply call of the task-graph strategy hands the engine exactly
\* one deferred task per item, each made of func and that item alone (no
\* task depends on another), with the process-based scheduler, a
\* granularity of one item per unit of work and a request for n_workers
\* workers; accordingly the scheduler never hands over two items at once.
C16_OneTaskPerItem ==
    /\ [](state = "Applying" /\ strategy = "dask" =>
            /\ Len(engine.graph) = Len(computations)
            /\ \A i \in 1..Len(computations) :
                  engine.graph[i] =
                      [func |-> func, arg |-> computations[i], deps |-> {}]
            /\ engine.kwargs.scheduler = "processes"
            /\ engine.kwargs.chunksize = 1
            /\ engine.kwargs.n_workers = n_workers)
    /\ [][(state = "Applying" /\ state' = "Applying" /\ strategy = "dask") =>
            Cardinality({i \in 1..Len(status) :
                           status[i] = "pending" /\ status'[i] = "submitted"})
              <= 1]_vars

C16_Witness ==
    /\ state = "Applying"
    /\ strategy = "dask"
    /\ pc = "compute"
    /\ n_workers.val = 2
    /\ alive = 2
    /\ Len(engine.graph) = 3
    /\ status = <<"running", "pending", "submitted">>

\* C17: the serial strategy invokes func on the items strictly in input
\* order, one invocation at a time and exactly once per item: an item is
\* started only when every item before it is done and never started again.
\* If func raises on an item, no later item is ever started and the
\* exception raised by apply is that of the failing item of lowest index.
C17_SerialInOrder ==
    /\ [](strategy = "serial" /\ state \in {"Applying", "Idle"} =>
            /\ Cardinality(Running) <= 1
            /\ \A j \in 1..Len(status) :
                  /\ status[j] \in {"pending", "running", "done", "failed"}
                  /\ status[j] # "pending" =>
                        \A i \in 1..(j - 1) : status[i] = "done"
                  /\ status[j] = "failed" =>
                        /\ Raises(func, computations[j])
                        /\ \A i \in 1..(j - 1) :
                              ~Raises(func, computations[i])
                        /\ \A k \in (j + 1)..Len(status) :
                              status[k] = "pending"
                        /\ Completed => result.exc = Exc(j)
            /\ Completed =>
                  IF \E j \in 1..Len(status) : Raises(func, computations[j])
                    THEN /\ result.kind = "raised"
                         /\ \E j \in 1..Len(status) : status[j] = "failed"
                    ELSE /\ result.kind = "returned"
                         /\ \A j \in 1..Len(status) : status[j] = "done")
    /\ [][(strategy = "serial" /\ state = "Applying"
                             /\ state' = "Applying") =>
            \A i \in 1..Len(status) :
                /\ status[i] \in {"done", "failed"} => status'[i] = status[i]
                /\ status[i] = "running" => status'[i] \in {"done", "failed"}]_vars

C17_Witness ==
    /\ Completed
    /\ strategy = "serial"
    /\ func = "checked"
    /\ computations = <<1, 2, 1, 2, 1>>
    /\ status = <<"done", "failed", "pending", "pending", "pending">>
    /\ result.exc = Exc(2)

\* the checks _validate loops over for the instance
InstanceChecks ==
    IF strategy = "custom" THEN rules.checks
    ELSE GetChecks(strategy, n_workers, dask_installed)

\* the soft rules _validate loops over for the instance
InstanceWarnings ==
    IF strategy = "custom" THEN rules.warnings
    ELSE GetWarnings(strategy, n_workers)

C20_DaskMergedChecks ==
    (strategy = "dask" /\ state # "Unvalidated") =>
        /\ state = "ConstructionFailed" <=>
              (~PositiveInteger(n_workers) \/ ~dask_installed)
        /\ state = "ConstructionFailed" =>
              \/ error = NWorkersMsg(n_workers) /\ ~PositiveInteger(n_workers)
              \/ error = DaskMsg /\ ~dask_installed
        /\ ~dask_installed => error = DaskMsg
        /\ Len(DaskGetChecks(n_workers, dask_installed)) =
              IF PositiveInteger(n_workers) = dask_installed THEN 1 ELSE 2

C20_Witness ==
    /\ state = "ConstructionFailed"
    /\ strategy = "dask"
    /\ ~dask_installed
    /\ n_workers.type = "str"
    /\ DaskGetChecks(n_workers, dask_installed) = <<<<FALSE, DaskMsg>>>>
    /\ error = DaskMsg

\* C21: _validate goes through every fatal rule before any soft rule. When
\* a condition of the mapping returned by _get_checks() is false,
\* construction fails and no warning has been emitted. When every condition
\* of that mapping holds, construction succeeds and every entry of the
\* mapping returned by _get_warnings() whose condition is false has its
\* message warned.
C21_FatalBeforeSoft ==
    state # "Unvalidated" =>
        /\ (\E j \in 1..Len(InstanceChecks) : ~InstanceChecks[j][1]) =>
              /\ state = "ConstructionFailed"
              /\ error # NoMsg
              /\ warned = << >>
        /\ (\A j \in 1..Len(InstanceChecks) : InstanceChecks[j][1]) =>
              /\ state # "ConstructionFailed"
              /\ error = NoMsg
              /\ \A k \in 1..Len(InstanceWarnings) :
                    ~InstanceWarnings[k][1] =>
                        \E m \in 1..Len(warned) :
                            warned[m] = InstanceWarnings[k][2]

C21_Witness ==
    /\ state = "Idle"
    /\ strategy = "custom"
    /\ rules.checks = <<<<TRUE, RuleMsg("fatal rule", 2)>>>>
    /\ rules.warnings = <<<<TRUE, RuleMsg("soft rule", 1)>>,
                          <<FALSE, RuleMsg("soft rule", 3)>>>>
    /\ warned = <<RuleMsg("soft rule", 3)>>

====
